---- MODULE Spec2Model ----
(***************************************************************************)
(* Model of src/modules.rs: the module registry (ModuleTree), the module   *)
(* constructor (Module::new) and the remote execution engine               *)
(* (Module::execute, execute_bash_script, obtain_connection_and_auth).     *)
(*                                                                         *)
(* The file system is an input: a directory of candidate files, chosen in  *)
(* Init, and a fixed store of payload files.  The network and the ssh      *)
(* library are an environment: every fallible call succeeds or fails       *)
(* nondeterministically.  A panic (panic!, unimplemented!, unreachable!)   *)
(* ends the thread that raised it without running the rest of its code.    *)
(***************************************************************************)
EXTENDS Integers, Sequences, FiniteSets, TLC

\* ------------------------------------------------------------------ bounds
MaxFiles == 2        \* files in the scanned directory
NumWorkers == 2      \* concurrent callers of run_module, one call each
SlotCapacity == 1    \* capacity of the caller's connection-slot semaphore
Timeout == 3         \* the value the caller's get_timeout returns

Workers == 1..NumWorkers

\* ------------------------------------------------------------ pure helpers
\* str::to_lowercase, on the strings the model uses.
to_lowercase(s) ==
    CASE s = "MOD" -> "mod"
      [] s = "SH" -> "sh"
      [] s = "Bash" -> "bash"
      [] s = "PY" -> "py"
      [] s = "Python" -> "python"
      [] s = "BIN" -> "bin"
      [] OTHER -> s

\* base64::encode, on the texts the model uses.
encode(s) ==
    CASE s = "print 1" -> "cHJpbnQgMQ=="
      [] s = "" -> ""
      [] OTHER -> "aG9zdG5hbWU9J2hvc3RuYW1lJztkYXRlPSdkYXRlJw=="

Ok(v) == [k |-> "Ok", v |-> v]
Err(e) == [k |-> "Err", e |-> e]
Panic == [k |-> "Panic"]

\* ------------------------------------------------------------- file system
\* The payload files that exist, by path, with their text.
CmdsText == "hostname='hostname';date='date'"

PayloadFiles ==
    [p \in {"cmds.toml", "empty.toml", "script.py"} |->
        CASE p = "cmds.toml" -> CmdsText
          [] p = "empty.toml" -> ""
          [] OTHER -> "print 1"]

\* The declarations of a payload text, in the order the file declares them
\* (used only to state what "declared order" is; the program never sees it).
Declared(text) ==
    IF text = CmdsText
    THEN << [name |-> "hostname", command |-> "hostname"],
            [name |-> "date", command |-> "date"] >>
    ELSE << >>

\* A descriptor file's content: unreadable, not a descriptor, or the two fields.
Props(t, p) == [k |-> "props", module_type |-> t, exec_path |-> p]
Unreadable == [k |-> "unreadable"]
Malformed == [k |-> "malformed"]

File(stem, ext, desc) == [stem |-> stem, ext |-> ext, desc |-> desc]

\* The files a scanned directory is drawn from.  ext is an Option: << >> or <<e>>.
CandidateFiles ==
    { File("deploy", <<"mod">>, Props("bash", "cmds.toml")),
      File("info", <<"MOD">>, Props("SH", "empty.toml")),
      File("script", <<"mod">>, Props("py", "script.py")),
      File("tool", <<"mod">>, Props("bin", "missing.bin")),
      File("broken", <<"mod">>, Malformed),
      File("locked", <<"mod">>, Unreadable),
      File("frob", <<"mod">>, Props("frobnicate", "cmds.toml")),
      File("nopay", <<"mod">>, Props("bash", "missing.toml")),
      File("badpay", <<"mod">>, Props("Bash", "script.py")),
      File("notes", <<"txt">>, Props("bash", "cmds.toml")),
      File("README", << >>, Props("bash", "cmds.toml")) }

\* Path::file_name: the last component, extension included.
file_name(f) == IF f.ext = << >> THEN f.stem ELSE f.stem \o "." \o f.ext[1]

\* Path::file_stem would be the name without its extension.
file_stem(f) == f.stem

\* ------------------------------------------------------------ Module::new
\* ExecType::from: the kind of a module_type string; panics on any other.
ExecType_from(a) ==
    LET l == to_lowercase(a) IN
    CASE l = "bin" -> Ok("Bin")
      [] l = "bash" -> Ok("Bash")
      [] l = "sh" -> Ok("Bash")
      [] l = "py" -> Ok("Python")
      [] l = "python" -> Ok("Python")
      [] OTHER -> Panic

\* ModuleProps::check_filename: the extension, lowercased, is "mod".
check_filename(f) ==
    IF f.ext = << >> THEN FALSE ELSE to_lowercase(f.ext[1]) = "mod"

\* The closure file_2_string of Module::new, on a payload path.
file_2_string(p) ==
    IF p \in DOMAIN PayloadFiles THEN Ok(PayloadFiles[p]) ELSE Err("io")

\* toml::from_str into HashMap<String, String>: an unordered mapping.
from_str(text) ==
    IF text = CmdsText \/ text = ""
    THEN LET d == Declared(text)
             names == { d[i].name : i \in 1..Len(d) }
         IN Ok([n \in names |->
                   d[CHOOSE i \in 1..Len(d) : d[i].name = n].command])
    ELSE Err("toml")

Shell(map) == [tag |-> "Shell", map |-> map]
Binary(path) == [tag |-> "Binary", path |-> path]
Python(script) == [tag |-> "Python", script |-> script]

Module(t, c) == [module_type |-> t, module_content |-> c]

\* materialize with the Bin and Bash arms exchanged.
materialize_swapped(t, exec_path) ==
    IF t = "Bash" THEN Ok(Binary(exec_path))
    ELSE IF t = "Python" THEN
      LET content == file_2_string(exec_path) IN
      IF content.k = "Err" THEN content
      ELSE LET com64 == encode(content.v) IN
           Ok(Python("python2 -c \" exec('" \o com64 \o "'.decode('base64'))\""))
    ELSE
      LET unparsed == file_2_string(exec_path) IN
      IF unparsed.k = "Err" THEN unparsed
      ELSE LET table == from_str(unparsed.v) IN
           IF table.k = "Err" THEN table ELSE Ok(Shell(table.v))

\* The match on res.module_type in Module::new: the content of a kind.
materialize(t, exec_path) ==
    IF t = "Bin" THEN Ok(Binary(exec_path))
    ELSE IF t = "Python" THEN
      LET content == file_2_string(exec_path) IN
      IF content.k = "Err" THEN content
      ELSE LET com64 == encode(content.v) IN
           Ok(Python("python2 -c \" exec('" \o com64 \o "'.decode('base64'))\""))
    ELSE
      LET unparsed == file_2_string(exec_path) IN
      IF unparsed.k = "Err" THEN unparsed
      ELSE LET table == from_str(unparsed.v) IN
           IF table.k = "Err" THEN table ELSE Ok(Shell(table.v))

\* Module::new on a descriptor file: Ok(Module), Err, or a panic.
Module_new(f) ==
    IF f.desc.k = "unreadable" THEN Err("io")
    ELSE IF f.desc.k = "malformed" THEN Err("toml")
    ELSE
      LET t == ExecType_from(f.desc.module_type) IN
      IF t.k = "Panic" THEN Panic
      ELSE LET content == materialize(t.v, f.desc.exec_path) IN
           IF content.k = "Err" THEN content
           ELSE Ok(Module(t.v, content.v))

\* ------------------------------------------------------------------- state
VARIABLES
    dir,          \* the scanned directory: a set of files
    treeState,    \* "unbuilt", "built", or "panicked" (ModuleTree::new aborted)
    tree,         \* ModuleTree.tree: key -> Module
    diagnostics,  \* the file names ModuleTree::new printed an error for
    slots,        \* free connection slots of the caller's contract
    agentHolder,  \* the workers holding the agent lock (a set: at most one)
    pc,           \* each worker's position in run_module / execute
    called,       \* the module_name a worker called run_module with
    module,       \* the Module a worker executes (NoModule before lookup)
    auth,         \* the AuthType a worker was called with
    sess,         \* the worker's Session: state and timeout in force
    remaining,    \* the command names the worker's for loop has not visited
    cur,          \* the command name of the loop iteration in progress
    res_map,      \* the worker's res_map
    result,       \* what run_module returned to the worker
    log           \* the hook, network and channel calls of the worker's call

vars == << dir, treeState, tree, diagnostics, slots, agentHolder, pc, called,
           module, auth, sess, remaining, cur, res_map, result, log >>

NoModule == [module_type |-> "None", module_content |-> [tag |-> "None"]]
NoResult == [k |-> "None"]
NoSession == [state |-> "None", timeout |-> 0, channels |-> 0]
EmptyMap == [n \in {} |-> ""]

AuthTypes == {"AgentFirst", "AgentWithKeyName"}

Ev(e, arg, ok) == [ev |-> e, arg |-> arg, ok |-> ok]

\* The names a caller may ask for: each file's name, each file's stem, and one
\* name no file has.
Names == { file_name(f) : f \in CandidateFiles }
         \cup { file_stem(f) : f \in CandidateFiles } \cup { "nosuch" }

Init ==
    /\ dir \in { d \in SUBSET CandidateFiles : Cardinality(d) <= MaxFiles }
    /\ treeState = "unbuilt"
    /\ tree = EmptyMap
    /\ diagnostics = {}
    /\ slots = SlotCapacity
    /\ agentHolder = {}
    /\ pc = [w \in Workers |-> "idle"]
    /\ called = [w \in Workers |-> ""]
    /\ module = [w \in Workers |-> NoModule]
    /\ auth = [w \in Workers |-> "AgentFirst"]
    /\ sess = [w \in Workers |-> NoSession]
    /\ remaining = [w \in Workers |-> {}]
    /\ cur = [w \in Workers |-> ""]
    /\ res_map = [w \in Workers |-> EmptyMap]
    /\ result = [w \in Workers |-> NoResult]
    /\ log = [w \in Workers |-> << >>]

\* ------------------------------------------------------- ModuleTree::new
\* The candidates that pass the filter, and the outcome of Module::new on each.
Candidates(d) == { f \in d : check_filename(f) }

\* The key ModuleTree::new registers a file under.
tree_key(f) == file_name(f)

\* ModuleTree::new: the registry of a directory, unless a Module::new panics.
ModuleTree_new(d) ==
    IF \E f \in Candidates(d) : Module_new(f).k = "Panic" THEN Panic
    ELSE LET good == { f \in Candidates(d) : Module_new(f).k = "Ok" }
         IN Ok([n \in { tree_key(f) : f \in good } |->
                  Module_new(CHOOSE f \in good : tree_key(f) = n).v])

BuildTree ==
    /\ treeState = "unbuilt"
    /\ LET r == ModuleTree_new(dir) IN
       IF r.k = "Panic"
       THEN /\ treeState' = "panicked"
            /\ UNCHANGED << tree, diagnostics >>
       ELSE /\ treeState' = "built"
            /\ tree' = r.v
            /\ diagnostics' = { file_name(f) : f \in
                                 { g \in Candidates(dir) : Module_new(g).k = "Err" } }
    /\ UNCHANGED << dir, slots, agentHolder, pc, called, module, auth, sess,
                    remaining, cur, res_map, result, log >>

\* ModuleTree::check_module
check_module(module_name) == module_name \in DOMAIN tree

\* -------------------------------------------- run_module and Module::execute
Append1(w, e) == [log EXCEPT ![w] = Append(@, e)]

\* A fallible call failed: the error propagates with ? out of
\* execute_bash_script (dropping the session) to execute, which goes on to
\* tcp_release.
Fail(w, e) ==
    /\ result' = [result EXCEPT ![w] = Err(e)]
    /\ sess' = [sess EXCEPT ![w] =
                  IF @.state = "None" THEN @ ELSE [@ EXCEPT !.state = "Closed"]]
    /\ pc' = [pc EXCEPT ![w] = "tcp_release"]

\* run_module whose dispatch sends every kind into the connection phase.
run_module_dispatch_all(w, module_name, a) ==
    /\ treeState = "built"
    /\ pc[w] = "idle"
    /\ called' = [called EXCEPT ![w] = module_name]
    /\ auth' = [auth EXCEPT ![w] = a]
    /\ IF module_name \notin DOMAIN tree
       THEN /\ result' = [result EXCEPT ![w] = Err("ModuleNotFound")]
            /\ pc' = [pc EXCEPT ![w] = "returned"]
            /\ UNCHANGED << module, log >>
       ELSE /\ module' = [module EXCEPT ![w] = tree[module_name]]
            /\ log' = Append1(w, Ev("execute", module_name, TRUE))
            /\ pc' = [pc EXCEPT ![w] = "tcp_synchronization"]
            /\ UNCHANGED result
    /\ UNCHANGED << dir, treeState, tree, diagnostics, slots, agentHolder, sess,
                    remaining, cur, res_map >>

\* run_module that unwraps the lookup instead of turning a miss into an error.
run_module_unwrap(w, module_name, a) ==
    /\ treeState = "built"
    /\ pc[w] = "idle"
    /\ called' = [called EXCEPT ![w] = module_name]
    /\ auth' = [auth EXCEPT ![w] = a]
    /\ IF module_name \notin DOMAIN tree
       THEN /\ pc' = [pc EXCEPT ![w] = "panicked"]
            /\ UNCHANGED << module, log >>
       ELSE /\ module' = [module EXCEPT ![w] = tree[module_name]]
            /\ log' = Append1(w, Ev("execute", module_name, TRUE))
            /\ pc' = [pc EXCEPT ![w] =
                        IF tree[module_name].module_type = "Bash"
                        THEN "tcp_synchronization" ELSE "panicked"]
    /\ UNCHANGED << dir, treeState, tree, diagnostics, slots, agentHolder, sess,
                    remaining, cur, res_map, result >>

\* ModuleTree::run_module and the dispatch of Module::execute: an unknown name
\* is an error; a Bash module enters execute_bash_script; Python and Bin are
\* unimplemented!().
run_module(w, module_name, a) ==
    /\ treeState = "built"
    /\ pc[w] = "idle"
    /\ called' = [called EXCEPT ![w] = module_name]
    /\ auth' = [auth EXCEPT ![w] = a]
    /\ IF module_name \notin DOMAIN tree
       THEN /\ result' = [result EXCEPT ![w] = Err("ModuleNotFound")]
            /\ pc' = [pc EXCEPT ![w] = "returned"]
            /\ UNCHANGED << module, log >>
       ELSE /\ module' = [module EXCEPT ![w] = tree[module_name]]
            /\ log' = Append1(w, Ev("execute", module_name, TRUE))
            /\ pc' = [pc EXCEPT ![w] =
                        IF tree[module_name].module_type = "Bash"
                        THEN "tcp_synchronization" ELSE "panicked"]
            /\ UNCHANGED result
    /\ UNCHANGED << dir, treeState, tree, diagnostics, slots, agentHolder, sess,
                    remaining, cur, res_map >>

\* The dial entered without the call of tcp_synchronization.
tcp_synchronization_skip(w) ==
    /\ pc[w] = "tcp_synchronization"
    /\ log' = Append1(w, Ev("tcp_synchronization", "", TRUE))
    /\ pc' = [pc EXCEPT ![w] = "connect"]
    /\ UNCHANGED << dir, treeState, tree, diagnostics, slots, agentHolder, called,
                    module, auth, sess, remaining, cur, res_map, result >>

\* sync.tcp_synchronization(): blocks until a connection slot is free.
tcp_synchronization(w) ==
    /\ pc[w] = "tcp_synchronization"
    /\ slots > 0
    /\ slots' = slots - 1
    /\ log' = Append1(w, Ev("tcp_synchronization", "", TRUE))
    /\ pc' = [pc EXCEPT ![w] = "connect"]
    /\ UNCHANGED << dir, treeState, tree, diagnostics, agentHolder, called, module, auth,
                    sess, remaining, cur, res_map, result >>

\* connect that dials again after a failure instead of returning the error.
TcpStream_connect_retry(w) ==
    /\ pc[w] = "connect"
    /\ \E ok \in BOOLEAN :
         /\ log' = Append1(w, Ev("connect", "", ok))
         /\ IF ok
            THEN /\ sess' = [sess EXCEPT ![w].state = "Tcp"]
                 /\ pc' = [pc EXCEPT ![w] = "session_new"]
            ELSE UNCHANGED << sess, pc >>
         /\ UNCHANGED result
    /\ UNCHANGED << dir, treeState, tree, diagnostics, slots, agentHolder, called,
                    module, auth, remaining, cur, res_map >>

\* TcpStream::connect(ip)?
TcpStream_connect(w) ==
    /\ pc[w] = "connect"
    /\ \E ok \in BOOLEAN :
         /\ log' = Append1(w, Ev("connect", "", ok))
         /\ IF ok
            THEN /\ sess' = [sess EXCEPT ![w].state = "Tcp"]
                 /\ pc' = [pc EXCEPT ![w] = "session_new"]
                 /\ UNCHANGED result
            ELSE Fail(w, "ConnectionError")
    /\ UNCHANGED << dir, treeState, tree, diagnostics, slots, agentHolder, called, module,
                    auth, remaining, cur, res_map >>

\* Session::new without the set_timeout call.
Session_new_no_timeout(w) ==
    /\ pc[w] = "session_new"
    /\ \E ok \in BOOLEAN :
         /\ log' = Append1(w, Ev("session_new", "", ok))
         /\ IF ok
            THEN /\ sess' = [sess EXCEPT ![w].state = "Session"]
                 /\ pc' = [pc EXCEPT ![w] = "handshake"]
                 /\ UNCHANGED result
            ELSE Fail(w, "Error initializing session")
    /\ UNCHANGED << dir, treeState, tree, diagnostics, slots, agentHolder, called,
                    module, auth, remaining, cur, res_map >>

\* Session::new()?; sess.set_tcp_stream(tcp); sess.set_timeout(sync.get_timeout())
Session_new(w) ==
    /\ pc[w] = "session_new"
    /\ \E ok \in BOOLEAN :
         /\ log' = Append1(w, Ev("session_new", "", ok))
         /\ IF ok
            THEN /\ sess' = [sess EXCEPT ![w].state = "Session",
                                         ![w].timeout = Timeout]
                 /\ pc' = [pc EXCEPT ![w] = "handshake"]
                 /\ UNCHANGED result
            ELSE Fail(w, "Error initializing session")
    /\ UNCHANGED << dir, treeState, tree, diagnostics, slots, agentHolder, called, module,
                    auth, remaining, cur, res_map >>

\* handshake whose error is dropped instead of propagated with ?.
handshake_unchecked(w) ==
    /\ pc[w] = "handshake"
    /\ \E ok \in BOOLEAN :
         /\ log' = Append1(w, Ev("handshake", "", ok))
         /\ sess' = [sess EXCEPT ![w].state = "Handshaken"]
         /\ pc' = [pc EXCEPT ![w] = "agent_synchronization"]
    /\ UNCHANGED << dir, treeState, tree, diagnostics, slots, agentHolder, called,
                    module, auth, remaining, cur, res_map, result >>

\* sess.handshake()?
handshake(w) ==
    /\ pc[w] = "handshake"
    /\ \E ok \in BOOLEAN :
         /\ log' = Append1(w, Ev("handshake", "", ok))
         /\ IF ok
            THEN /\ sess' = [sess EXCEPT ![w].state = "Handshaken"]
                 /\ pc' = [pc EXCEPT ![w] = "agent_synchronization"]
                 /\ UNCHANGED result
            ELSE Fail(w, "Failed establishing handshake")
    /\ UNCHANGED << dir, treeState, tree, diagnostics, slots, agentHolder, called, module,
                    auth, remaining, cur, res_map >>

\* The authentication entered without the call of agent_synchronization.
agent_synchronization_skip(w) ==
    /\ pc[w] = "agent_synchronization"
    /\ log' = Append1(w, Ev("agent_synchronization", "", TRUE))
    /\ pc' = [pc EXCEPT ![w] = "auth"]
    /\ UNCHANGED << dir, treeState, tree, diagnostics, slots, agentHolder, called,
                    module, auth, sess, remaining, cur, res_map, result >>

\* sync.agent_synchronization(): blocks until the agent lock is free.
agent_synchronization(w) ==
    /\ pc[w] = "agent_synchronization"
    /\ agentHolder = {}
    /\ agentHolder' = {w}
    /\ log' = Append1(w, Ev("agent_synchronization", "", TRUE))
    /\ pc' = [pc EXCEPT ![w] = "auth"]
    /\ UNCHANGED << dir, treeState, tree, diagnostics, slots, called, module, auth, sess,
                    remaining, cur, res_map, result >>

\* auth whose AgentWithKeyName arm falls back to userauth_agent.
AuthType_auth_fallback(w) ==
    /\ pc[w] = "auth"
    /\ \E ok \in BOOLEAN :
         /\ log' = Append1(w, Ev("userauth_agent", "", ok))
         /\ IF ok
            THEN /\ sess' = [sess EXCEPT ![w].state = "Authenticated"]
                 /\ pc' = [pc EXCEPT ![w] = "agent_release"]
                 /\ UNCHANGED result
            ELSE Fail(w, "Authentication Error")
    /\ UNCHANGED << dir, treeState, tree, diagnostics, slots, agentHolder, called,
                    module, auth, remaining, cur, res_map >>

\* auth whose rejection is dropped instead of propagated with ?.
AuthType_auth_unchecked(w) ==
    /\ pc[w] = "auth"
    /\ IF auth[w] = "AgentFirst"
       THEN \E ok \in BOOLEAN :
              /\ log' = Append1(w, Ev("userauth_agent", "", ok))
              /\ sess' = [sess EXCEPT ![w].state =
                            IF ok THEN "Authenticated" ELSE @]
              /\ pc' = [pc EXCEPT ![w] = "agent_release"]
       ELSE /\ log' = Append1(w, Ev("unimplemented", "", FALSE))
            /\ sess' = [sess EXCEPT ![w].state = "Closed"]
            /\ pc' = [pc EXCEPT ![w] = "panicked"]
    /\ UNCHANGED result
    /\ UNCHANGED << dir, treeState, tree, diagnostics, slots, agentHolder, called,
                    module, auth, remaining, cur, res_map >>

\* auth.auth(&sess)?: AgentFirst calls userauth_agent, which the host accepts
\* or rejects; AgentWithKeyName is unimplemented!().
AuthType_auth(w) ==
    /\ pc[w] = "auth"
    /\ IF auth[w] = "AgentFirst"
       THEN \E ok \in BOOLEAN :
              /\ log' = Append1(w, Ev("userauth_agent", "", ok))
              /\ IF ok
                 THEN /\ sess' = [sess EXCEPT ![w].state = "Authenticated"]
                      /\ pc' = [pc EXCEPT ![w] = "agent_release"]
                      /\ UNCHANGED result
                 ELSE Fail(w, "Authentication Error")
       ELSE /\ log' = Append1(w, Ev("unimplemented", "", FALSE))
            /\ sess' = [sess EXCEPT ![w].state = "Closed"]
            /\ pc' = [pc EXCEPT ![w] = "panicked"]
            /\ UNCHANGED result
    /\ UNCHANGED << dir, treeState, tree, diagnostics, slots, agentHolder, called, module,
                    auth, remaining, cur, res_map >>

\* sync.agent_release(); Ok(sess)
agent_release(w) ==
    /\ pc[w] = "agent_release"
    /\ agentHolder' = agentHolder \ {w}
    /\ log' = Append1(w, Ev("agent_release", "", TRUE))
    /\ pc' = [pc EXCEPT ![w] = "channel_session"]
    /\ UNCHANGED << dir, treeState, tree, diagnostics, slots, called, module, auth, sess,
                    remaining, cur, res_map, result >>

\* The match on module_content (unreachable!() unless it is Shell), the new
\* res_map, and session.channel_session()?
channel_session(w) ==
    /\ pc[w] = "channel_session"
    /\ IF module[w].module_content.tag # "Shell"
       THEN /\ log' = Append1(w, Ev("unreachable", "", FALSE))
            /\ sess' = [sess EXCEPT ![w].state = "Closed"]
            /\ pc' = [pc EXCEPT ![w] = "panicked"]
            /\ UNCHANGED << remaining, res_map, result >>
       ELSE \E ok \in BOOLEAN :
              /\ log' = Append1(w, Ev("channel_session", "", ok))
              /\ res_map' = [res_map EXCEPT ![w] = EmptyMap]
              /\ IF ok
                 THEN /\ sess' = [sess EXCEPT ![w].channels = @ + 1]
                      /\ remaining' = [remaining EXCEPT ![w] =
                                         DOMAIN module[w].module_content.map]
                      /\ pc' = [pc EXCEPT ![w] = "loop"]
                      /\ UNCHANGED result
                 ELSE /\ Fail(w, "channel_session")
                      /\ UNCHANGED remaining
    /\ UNCHANGED << dir, treeState, tree, diagnostics, slots, agentHolder, called, module,
                    auth, cur >>

\* The loop body opening a channel of its own for every command.
channel_exec_per_command(w) ==
    /\ pc[w] = "loop"
    /\ \E command_name \in remaining[w], ok \in BOOLEAN :
         /\ log' = Append1(w, Ev("exec", command_name, ok))
         /\ IF ok
            THEN /\ cur' = [cur EXCEPT ![w] = command_name]
                 /\ sess' = [sess EXCEPT ![w].channels = @ + 1]
                 /\ pc' = [pc EXCEPT ![w] = "read_to_string"]
                 /\ UNCHANGED result
            ELSE /\ Fail(w, "exec")
                 /\ UNCHANGED cur
    /\ UNCHANGED << dir, treeState, tree, diagnostics, slots, agentHolder, called,
                    module, auth, remaining, res_map >>

\* The next (command_name, command) of the for loop over the HashMap, in the
\* map's iteration order, which is any order; then channel.exec(&command)?
channel_exec(w) ==
    /\ pc[w] = "loop"
    /\ \E command_name \in remaining[w], ok \in BOOLEAN :
         /\ log' = Append1(w, Ev("exec", command_name, ok))
         /\ IF ok
            THEN /\ cur' = [cur EXCEPT ![w] = command_name]
                 /\ pc' = [pc EXCEPT ![w] = "read_to_string"]
                 /\ UNCHANGED << sess, result >>
            ELSE /\ Fail(w, "exec")
                 /\ UNCHANGED cur
    /\ UNCHANGED << dir, treeState, tree, diagnostics, slots, agentHolder, called, module,
                    auth, remaining, res_map >>

\* The text a command writes, as the remote host produces it.
Output(command) == "$ " \o command

\* read_to_string whose error skips the command instead of ending the call.
read_to_string_skip(w) ==
    /\ pc[w] = "read_to_string"
    /\ \E ok \in BOOLEAN :
         /\ log' = Append1(w, Ev("read_to_string", cur[w], ok))
         /\ res_map' = [res_map EXCEPT ![w] =
              IF ok
              THEN [n \in DOMAIN @ \cup {cur[w]} |->
                      IF n = cur[w]
                      THEN Output(module[w].module_content.map[n])
                      ELSE @[n]]
              ELSE @]
         /\ remaining' = [remaining EXCEPT ![w] = @ \ {cur[w]}]
         /\ pc' = [pc EXCEPT ![w] = "loop"]
    /\ UNCHANGED << dir, treeState, tree, diagnostics, slots, agentHolder, called,
                    module, auth, sess, cur, result >>

\* channel.read_to_string(&mut result_string)?; res_map.insert(...)
read_to_string(w) ==
    /\ pc[w] = "read_to_string"
    /\ \E ok \in BOOLEAN :
         /\ log' = Append1(w, Ev("read_to_string", cur[w], ok))
         /\ IF ok
            THEN /\ res_map' = [res_map EXCEPT ![w] =
                      [n \in DOMAIN @ \cup {cur[w]} |->
                         IF n = cur[w]
                         THEN Output(module[w].module_content.map[n])
                         ELSE @[n]]]
                 /\ remaining' = [remaining EXCEPT ![w] = @ \ {cur[w]}]
                 /\ pc' = [pc EXCEPT ![w] = "loop"]
                 /\ UNCHANGED << sess, result >>
            ELSE /\ Fail(w, "read_to_string")
                 /\ UNCHANGED << res_map, remaining >>
    /\ UNCHANGED << dir, treeState, tree, diagnostics, slots, agentHolder, called, module,
                    auth, cur >>

\* The for loop is over: Ok(res_map), mapped to CommandOutput::Multi; the
\* session is dropped as execute_bash_script returns.
loop_done(w) ==
    /\ pc[w] = "loop"
    /\ remaining[w] = {}
    /\ result' = [result EXCEPT ![w] = Ok([tag |-> "Multi", map |-> res_map[w]])]
    /\ sess' = [sess EXCEPT ![w].state = "Closed"]
    /\ pc' = [pc EXCEPT ![w] = "tcp_release"]
    /\ UNCHANGED << dir, treeState, tree, diagnostics, slots, agentHolder, called, module,
                    auth, remaining, cur, res_map, log >>

\* sync.tcp_release(); result
tcp_release(w) ==
    /\ pc[w] = "tcp_release"
    /\ slots' = slots + 1
    /\ log' = Append1(w, Ev("tcp_release", "", TRUE))
    /\ pc' = [pc EXCEPT ![w] = "returned"]
    /\ UNCHANGED << dir, treeState, tree, diagnostics, agentHolder, called, module, auth,
                    sess, remaining, cur, res_map, result >>

\* --------------------------------------------------------- specifications
\* One caller: the registry is built, then worker 1 makes one run_module call.
Callers == {1}

Step(w) ==
    \/ \E module_name \in Names, a \in AuthTypes : run_module(w, module_name, a)
    \/ tcp_synchronization(w)
    \/ TcpStream_connect(w)
    \/ Session_new(w)
    \/ handshake(w)
    \/ agent_synchronization(w)
    \/ AuthType_auth(w)
    \/ agent_release(w)
    \/ channel_session(w)
    \/ channel_exec(w)
    \/ read_to_string(w)
    \/ loop_done(w)
    \/ tcp_release(w)

Next == BuildTree \/ \E w \in Callers : Step(w)

Spec == Init /\ [][Next]_vars

\* Several workers, each calling run_module once on a registered module, share
\* the registry and one contract: a slot semaphore of SlotCapacity and an
\* agent mutex.  Every thread that can take a step eventually takes one.
ConcDir == { f \in CandidateFiles : file_name(f) \in {"deploy.mod", "script.mod"} }

ConcInit ==
    /\ dir = ConcDir
    /\ treeState = "unbuilt"
    /\ tree = EmptyMap
    /\ diagnostics = {}
    /\ slots = SlotCapacity
    /\ agentHolder = {}
    /\ pc = [w \in Workers |-> "idle"]
    /\ called = [w \in Workers |-> ""]
    /\ module = [w \in Workers |-> NoModule]
    /\ auth = [w \in Workers |-> "AgentFirst"]
    /\ sess = [w \in Workers |-> NoSession]
    /\ remaining = [w \in Workers |-> {}]
    /\ cur = [w \in Workers |-> ""]
    /\ res_map = [w \in Workers |-> EmptyMap]
    /\ result = [w \in Workers |-> NoResult]
    /\ log = [w \in Workers |-> << >>]

ConcStep(w) ==
    \/ \E module_name \in DOMAIN tree, a \in AuthTypes : run_module(w, module_name, a)
    \/ tcp_synchronization(w)
    \/ TcpStream_connect(w)
    \/ Session_new(w)
    \/ handshake(w)
    \/ agent_synchronization(w)
    \/ AuthType_auth(w)
    \/ agent_release(w)
    \/ channel_session(w)
    \/ channel_exec(w)
    \/ read_to_string(w)
    \/ loop_done(w)
    \/ tcp_release(w)

ConcNext == BuildTree \/ \E w \in Workers : ConcStep(w)

ConcSpec ==
    /\ ConcInit
    /\ [][ConcNext]_vars
    /\ WF_vars(BuildTree)
    /\ \A w \in Workers : WF_vars(ConcStep(w))

\* The same workers under a contract whose slot semaphore admits all of them,
\* so that only the agent mutex orders the authentications.
AgentInit ==
    /\ dir = ConcDir
    /\ treeState = "unbuilt"
    /\ tree = EmptyMap
    /\ diagnostics = {}
    /\ slots = NumWorkers
    /\ agentHolder = {}
    /\ pc = [w \in Workers |-> "idle"]
    /\ called = [w \in Workers |-> ""]
    /\ module = [w \in Workers |-> NoModule]
    /\ auth = [w \in Workers |-> "AgentFirst"]
    /\ sess = [w \in Workers |-> NoSession]
    /\ remaining = [w \in Workers |-> {}]
    /\ cur = [w \in Workers |-> ""]
    /\ res_map = [w \in Workers |-> EmptyMap]
    /\ result = [w \in Workers |-> NoResult]
    /\ log = [w \in Workers |-> << >>]

AgentSpec == AgentInit /\ [][ConcNext]_vars

\* ---------------------------------------------------- vocabulary of claims
Ended(w) == pc[w] \in {"returned", "panicked"}

\* Module::execute was entered by the worker's call.
ExecuteCalled(w) == module[w] # NoModule

Positions(w, e) == { i \in 1..Len(log[w]) : log[w][i].ev = e }
Count(w, e) == Cardinality(Positions(w, e))

\* The file of the directory a registry key stands for.
FileOfKey(n) == CHOOSE f \in Candidates(dir) : tree_key(f) = n

\* The command names the payload file of the worker's module declares, in the
\* file's order, read from the file and not from the parsed mapping.
DeclaredOf(w) == Declared(PayloadFiles[FileOfKey(called[w]).desc.exec_path])
DeclaredNames(w) == { DeclaredOf(w)[i].name : i \in 1..Len(DeclaredOf(w)) }
DeclIndex(w, n) == CHOOSE i \in 1..Len(DeclaredOf(w)) : DeclaredOf(w)[i].name = n

KnownTypes == {"bin", "bash", "sh", "py", "python"}
HasProps(f) == f.desc.k = "props"
TypeKnown(f) == HasProps(f) /\ to_lowercase(f.desc.module_type) \in KnownTypes
TypeUnknown(f) == HasProps(f) /\ to_lowercase(f.desc.module_type) \notin KnownTypes
IsBinType(f) == HasProps(f) /\ to_lowercase(f.desc.module_type) = "bin"
IsBashType(f) == HasProps(f) /\ to_lowercase(f.desc.module_type) \in {"bash", "sh"}
PayloadMissing(f) == HasProps(f) /\ f.desc.exec_path \notin DOMAIN PayloadFiles
PayloadUnparsable(f) ==
    /\ IsBashType(f)
    /\ ~PayloadMissing(f)
    /\ PayloadFiles[f.desc.exec_path] \notin {CmdsText, ""}

\* A candidate file that must be left out of the registry: its descriptor is
\* unreadable or malformed (an unknown module_type included), or the payload
\* that construction reads (Bash, Python) is missing or does not parse.
BadFile(f) ==
    \/ ~HasProps(f)
    \/ TypeUnknown(f)
    \/ (PayloadMissing(f) /\ ~IsBinType(f))
    \/ PayloadUnparsable(f)

Registered(f) == tree_key(f) \in DOMAIN tree

\* ------------------------------------------------------------------ claims

\* C1: every execute that has ended, in whatever phase, made as many
\* tcp_release calls as tcp_synchronization calls; an execute of a Bash module
\* made exactly one of each, the release after the acquire.
C1_SlotBalanced ==
    \A w \in Workers :
      (Ended(w) /\ ExecuteCalled(w)) =>
        /\ Count(w, "tcp_release") = Count(w, "tcp_synchronization")
        /\ module[w].module_type = "Bash" =>
             /\ Count(w, "tcp_synchronization") = 1
             /\ \A i \in Positions(w, "tcp_synchronization"),
                   j \in Positions(w, "tcp_release") : i < j

\* C2: a CommandOutput returned for a Bash module is a Multi whose key set is
\* exactly the set of command names the payload file declares (never fewer).
C2_MultiComplete ==
    \A w \in Workers :
      result[w].k = "Ok" =>
        /\ result[w].v.tag = "Multi"
        /\ DOMAIN result[w].v.map = DeclaredNames(w)
        /\ Cardinality(DOMAIN result[w].v.map) = Len(DeclaredOf(w))

C2_Witness ==
    \E w \in Workers :
      /\ result[w].k = "Ok"
      /\ pc[w] = "returned"
      /\ Cardinality(DOMAIN result[w].v.map) = 2

\* C3: the commands of one Bash execution run one at a time in the order the
\* payload file declares them: of two execs the earlier one is declared
\* first, and its output was read before the later exec started.
C3_DeclaredOrder ==
    \A w \in Workers :
      \A i, j \in Positions(w, "exec") :
        i < j =>
          /\ DeclIndex(w, log[w][i].arg) < DeclIndex(w, log[w][j].arg)
          /\ \E r \in Positions(w, "read_to_string") :
               i < r /\ r < j /\ log[w][r].arg = log[w][i].arg /\ log[w][r].ok

\* C4: run_module with a name that is no key of the registry returns the
\* "module not found" error: no panic, no CommandOutput, no hook call, no
\* connection attempt.
C4_NotFound ==
    \A w \in Workers :
      (pc[w] # "idle" /\ called[w] \notin DOMAIN tree) =>
        /\ pc[w] = "returned"
        /\ result[w] = Err("ModuleNotFound")
        /\ log[w] = << >>
        /\ sess[w] = NoSession
        /\ slots = SlotCapacity
        /\ agentHolder = {}

C4_Witness ==
    \E w \in Workers :
      /\ pc[w] = "returned"
      /\ called[w] \notin DOMAIN tree
      /\ DOMAIN tree # {}

\* C5: whatever the candidate files, ModuleTree::new completes, the registry
\* has no entry for a file whose descriptor or payload is bad, and it has an
\* entry for every other candidate.
C5_FaultIsolation ==
    treeState # "unbuilt" =>
      /\ treeState = "built"
      /\ \A f \in Candidates(dir) : BadFile(f) <=> ~Registered(f)

\* C6: a descriptor with an unrecognised module_type is left out with a
\* diagnostic: ModuleTree::new completes and registers every valid module.
C6_BadTypeRecoverable ==
    (treeState # "unbuilt" /\ \E f \in Candidates(dir) : TypeUnknown(f)) =>
      /\ treeState = "built"
      /\ \A f \in Candidates(dir) :
           /\ TypeUnknown(f) => (~Registered(f) /\ file_name(f) \in diagnostics)
           /\ ~BadFile(f) => Registered(f)

\* C7: in an execute that called agent_synchronization, agent_release is the
\* call right after the authentication, accepted or rejected, before any
\* channel is opened; an ended execute has released as often as it acquired.
C7_AgentReleased ==
    \A w \in Workers :
      /\ \A i \in Positions(w, "userauth_agent") :
           (i < Len(log[w]) \/ Ended(w)) =>
             (i < Len(log[w]) /\ log[w][i + 1].ev = "agent_release")
      /\ \A c \in Positions(w, "channel_session") :
           Count(w, "agent_release") = Count(w, "agent_synchronization")
      /\ pc[w] = "returned" =>
           Count(w, "agent_release") = Count(w, "agent_synchronization")

\* C8: in an execute of a Bash module the slot is acquired before the dial,
\* and held during the dial, the handshake and the authentication; the agent
\* is acquired only after a successful handshake.
C8_AcquireBeforeDial ==
    \A w \in Workers :
      \A i \in 1..Len(log[w]) :
        /\ log[w][i].ev \in {"connect", "session_new", "handshake",
                             "agent_synchronization", "userauth_agent"} =>
             /\ \E j \in Positions(w, "tcp_synchronization") : j < i
             /\ \A j \in Positions(w, "tcp_release") : i < j
        /\ log[w][i].ev = "agent_synchronization" =>
             \E j \in Positions(w, "handshake") : j < i /\ log[w][j].ok

C8_Witness ==
    \E w \in Workers :
      /\ module[w].module_type = "Bash"
      /\ Count(w, "connect") = 1
      /\ Count(w, "agent_synchronization") = 1
      /\ Count(w, "userauth_agent") = 1

\* C9: a module file is registered under its name without the extension:
\* check_module finds it there, and so does run_module.
C9_KeyIsStem ==
    treeState = "built" =>
      /\ \A f \in Candidates(dir) :
           Module_new(f).k = "Ok" => check_module(file_stem(f))
      /\ \A w \in Workers :
           (pc[w] # "idle" /\ \E f \in Candidates(dir) :
               Module_new(f).k = "Ok" /\ called[w] = file_stem(f)) =>
             result[w] # Err("ModuleNotFound")

\* C10: every Module of the registry, and every Module being executed, has a
\* kind tag that matches the case of its content; no execution takes the
\* unreachable!() branch.
KindMatches(m) ==
    \/ m.module_type = "Bash" /\ m.module_content.tag = "Shell"
    \/ m.module_type = "Python" /\ m.module_content.tag = "Python"
    \/ m.module_type = "Bin" /\ m.module_content.tag = "Binary"

C10_KindMatchesContent ==
    /\ \A n \in DOMAIN tree : KindMatches(tree[n])
    /\ \A w \in Workers :
         /\ ExecuteCalled(w) => KindMatches(module[w])
         /\ Count(w, "unreachable") = 0

C10_Witness ==
    /\ \E n, m \in DOMAIN tree : tree[n].module_type # tree[m].module_type
    /\ \E w \in Workers :
         /\ module[w].module_type = "Bash"
         /\ Count(w, "channel_session") = 1

\* C11: the content Module::new stores for a Python descriptor is the raw text
\* of the file at exec_path, not an encoded form of it.
C11_PythonRawText ==
    \A n \in DOMAIN tree :
      tree[n].module_type = "Python" =>
        tree[n].module_content.script = PayloadFiles[FileOfKey(n).desc.exec_path]

\* C12: the timeout of get_timeout is in force for the handshake only: it is
\* set on the session when the handshake starts, and no timeout (0) is in
\* force while commands are executed and their output is read.
C12_HandshakeOnly ==
    \A w \in Workers :
      /\ pc[w] = "handshake" => sess[w].timeout = Timeout
      /\ pc[w] \in {"loop", "read_to_string"} => sess[w].timeout = 0

\* C12, amended: the timeout of get_timeout is set on the session before the
\* handshake and is never changed: it is the session's timeout during the
\* handshake, the authentication, and every exec and output read.
SessionPhases ==
    {"handshake", "agent_synchronization", "auth", "agent_release",
     "channel_session", "loop", "read_to_string"}

C12_TimeoutKept ==
    \A w \in Workers : pc[w] \in SessionPhases => sess[w].timeout = Timeout

C12_Witness ==
    \E w \in Workers :
      /\ pc[w] = "read_to_string"
      /\ sess[w].timeout = Timeout
      /\ Count(w, "exec") = 2

\* C13: an execute dials, handshakes and authenticates at most once each, and
\* a failed connect, session init, handshake or authentication is followed by
\* nothing but the slot release and the error return.
C13_NoRetry ==
    \A w \in Workers :
      /\ \A e \in {"connect", "session_new", "handshake", "userauth_agent"} :
           Count(w, e) <= 1
      /\ \A i \in 1..Len(log[w]) :
           (log[w][i].ev \in {"connect", "session_new", "handshake",
                              "userauth_agent"} /\ ~log[w][i].ok) =>
             /\ result[w].k = "Err"
             /\ i = Len(log[w]) \/
                  (i + 1 = Len(log[w]) /\ log[w][i + 1].ev = "tcp_release")

C13_Witness ==
    \E w \in Workers :
      /\ pc[w] = "returned"
      /\ Count(w, "handshake") = 1
      /\ \E i \in Positions(w, "handshake") : ~log[w][i].ok
      /\ result[w] = Err("Failed establishing handshake")

\* C14: execute on a Python or Bin module returns no CommandOutput, makes no
\* connection, runs no command, and makes as many slot releases as acquires.
C14_Unsupported ==
    \A w \in Workers :
      (ExecuteCalled(w) /\ module[w].module_type \in {"Python", "Bin"}) =>
        /\ result[w].k # "Ok"
        /\ \A i \in 1..Len(log[w]) : log[w][i].ev = "execute"
        /\ sess[w] = NoSession
        /\ Count(w, "tcp_release") = Count(w, "tcp_synchronization")

C14_Witness ==
    \E w \in Workers :
      /\ pc[w] = "panicked"
      /\ module[w].module_type = "Python"

\* C15: an execute called with AgentWithKeyName never calls userauth_agent,
\* never has an authenticated session, opens no channel and runs no command.
C15_NoAgentFirstFallback ==
    \A w \in Workers :
      (pc[w] # "idle" /\ auth[w] = "AgentWithKeyName") =>
        /\ Count(w, "userauth_agent") = 0
        /\ sess[w].state # "Authenticated"
        /\ Count(w, "channel_session") = 0
        /\ Count(w, "exec") = 0
        /\ result[w].k # "Ok"

C15_Witness ==
    \E w \in Workers :
      /\ auth[w] = "AgentWithKeyName"
      /\ Count(w, "agent_synchronization") = 1
      /\ pc[w] = "panicked"

\* C19: a channel is opened and a command executed only after, in the same
\* execute, the connect, the handshake and the authentication succeeded, in
\* that order.
C19_ReadyBeforeCommands ==
    \A w \in Workers :
      \A i \in 1..Len(log[w]) :
        log[w][i].ev \in {"channel_session", "exec", "read_to_string"} =>
          \E c \in Positions(w, "connect"), h \in Positions(w, "handshake"),
             a \in Positions(w, "userauth_agent") :
            /\ c < h /\ h < a /\ a < i
            /\ log[w][c].ok /\ log[w][h].ok /\ log[w][a].ok

C19_Witness ==
    \E w \in Workers :
      /\ Count(w, "exec") = 1
      /\ sess[w].state = "Authenticated"
      /\ pc[w] = "read_to_string"

\* C20: one Bash execution opens one command channel, after authentication
\* and before the loop, also when the module declares no command; every exec
\* and read is issued with exactly that one channel open.
C20_OneChannel ==
    \A w \in Workers :
      /\ Count(w, "channel_session") <= 1
      /\ sess[w].channels <= 1
      /\ pc[w] \in {"loop", "read_to_string"} => sess[w].channels = 1
      /\ result[w].k = "Ok" =>
           /\ sess[w].channels = 1
           /\ Count(w, "channel_session") = 1
      /\ \A i \in Positions(w, "channel_session") :
           /\ \E a \in Positions(w, "userauth_agent") : a < i /\ log[w][a].ok
           /\ \A e \in Positions(w, "exec") : i < e

C20_Witness ==
    \E w \in Workers :
      /\ result[w].k = "Ok"
      /\ Count(w, "exec") = 2
      /\ sess[w].channels = 1

C20_WitnessNoCommands ==
    \E w \in Workers :
      /\ result[w].k = "Ok"
      /\ DOMAIN module[w].module_content.map = {}
      /\ sess[w].channels = 1

\* C16: with the agent hooks a mutex, at most one worker at a time is between
\* its agent_synchronization and its agent_release.
InAgentSection(w) == pc[w] \in {"auth", "agent_release"}

C16_AgentMutualExclusion ==
    Cardinality({ w \in Workers : InAgentSection(w) }) <= 1

C16_Witness ==
    \E w, v \in Workers :
      /\ w # v
      /\ pc[w] = "auth"
      /\ pc[v] = "agent_synchronization"

\* C17: with the slot hooks a semaphore of capacity K, at most K workers have
\* a dial in progress or a live session; a session is live only between its
\* execute's tcp_synchronization and tcp_release, and an ended execute has
\* none.
LiveSession(w) == sess[w].state \in {"Tcp", "Session", "Handshaken", "Authenticated"}
Dialing(w) == pc[w] = "connect"

C17_SlotBound ==
    /\ Cardinality({ w \in Workers : Dialing(w) \/ LiveSession(w) }) <= SlotCapacity
    /\ \A w \in Workers :
         /\ (Dialing(w) \/ LiveSession(w)) =>
              /\ Count(w, "tcp_synchronization") = 1
              /\ Count(w, "tcp_release") = 0
         /\ (Ended(w) \/ pc[w] = "tcp_release") => ~LiveSession(w)

C17_Witness ==
    \E w, v \in Workers :
      /\ w # v
      /\ LiveSession(w)
      /\ pc[v] = "tcp_synchronization"
      /\ slots = 0

\* C18: with blocking hooks and network calls that always finish, every
\* execute call that does not panic eventually returns, whatever happens to
\* the other workers.
C18_EveryCallReturns ==
    ([](\A v \in Workers : pc[v] # "panicked")) =>
      \A w \in Workers : (pc[w] # "idle") ~> (pc[w] = "returned")

====
